---- MODULE Spec2Model ----
(***************************************************************************)
(* Model of src/app.py: the Streamlit script that turns an uploaded audio  *)
(* file and a still image into a video with a chroma-keyed overlay.        *)
(*                                                                         *)
(* One script run (one "request") of a session is process_media followed   *)
(* by the UI block.  process_media is cut at its file-system operations,   *)
(* which is where another session's script run can interleave: the three   *)
(* intermediate videos live at fixed paths of the temporary directory.     *)
(*                                                                         *)
(* Time is counted in ticks of 1/TicksPerSecond seconds.  A clip is the    *)
(* sequence of its frames on the 24 fps time base of the image video, so   *)
(* frame i of the overlay clip is the one shown with frame i of the base.  *)
(* An ffmpeg run either succeeds, raises ffmpeg.Error, or raises another   *)
(* exception (for instance OSError when the binary cannot be started).     *)
(***************************************************************************)
EXTENDS Integers, Sequences, FiniteSets, TLC

VARIABLES pc, reqNo, audio, duration, errors, calls, result, data, fs, tmp, overlayLen

vars == <<pc, reqNo, audio, duration, errors, calls, result, data, fs, tmp, overlayLen>>

\* ---------------------------------------------------------------- bounds
MaxRequests == 2
MaxDuration == 3
MaxOverlayFrames == 3
TicksPerSecond == 16

\* ------------------------------------------------------------- constants
FrameRate == 24

DEFAULT_OVERLAY_VIDEO == "greenscreen_overlay.mp4"

AllSessions == {1, 2}

image_video_path == "image_video.mp4"
overlay_path == "overlay_video.mp4"
final_output_path == "final_output.mp4"
FixedPaths == {image_video_path, overlay_path, final_output_path}

None == "None"
Unset == "unset"

\* File names the uploader may hand over, by extension.
Exts == {".mp3", ".WAV", ".aac", ".ogg", ".flac"}

\* What the metadata reader does with the file: raise, or report a length.
AudioInputs ==
    {a \in [ext : Exts, readable : BOOLEAN, length : -1..MaxDuration] :
        ~a.readable => a.length = 0}

NoRequest == <<0, 0>>
NoAudio == [ext |-> "", readable |-> FALSE, length |-> 0]

\* A file at one of the fixed paths.  by: the request whose ffmpeg run wrote
\* it; img: the request whose image its frames show; ovs: for each frame the
\* index of the overlay frame composited on it (-1: none); aud: the request
\* whose audio is muxed in; complete: the run that wrote it succeeded.
Absent ==
    [exists |-> FALSE, by |-> NoRequest, img |-> NoRequest, ovs |-> <<>>,
     aud |-> NoRequest, complete |-> FALSE]

Partial(r) ==
    [exists |-> TRUE, by |-> r, img |-> NoRequest, ovs |-> <<>>,
     aud |-> NoRequest, complete |-> FALSE]

Min(a, b) == IF a <= b THEN a ELSE b

\* Mutant: the extension is compared without lower-casing it.
LowerMissing(ext) == ext

\* os.path.splitext(audio_path)[1].lower()
Lower(ext) ==
    CASE ext = ".WAV" -> ".wav"
      [] OTHER -> ext

\* get_audio_duration: the value returned and the errors reported.
get_audio_duration(a) ==
    IF Lower(a.ext) \in {".mp3", ".wav", ".aac", ".ogg"}
    THEN IF a.readable
         THEN [ret |-> a.length, errs |-> <<>>]
         ELSE [ret |-> 0, errs |-> <<"Could not determine audio duration">>]
    ELSE [ret |-> 0, errs |-> <<"Unsupported audio format">>]

\* Mutant: only a zero duration is rejected.
InvalidDurationZeroOnly(d) == d = 0

\* if duration <= 0
InvalidDuration(d) == d <= 0

\* Frames of the image video: the image looped for t=duration at r=24.
ImageVideoFrames(d) == (d * FrameRate + TicksPerSecond - 1) \div TicksPerSecond

ImageVideo(r, d) ==
    [exists |-> TRUE, by |-> r, img |-> r,
     ovs |-> [i \in 1..ImageVideoFrames(d) |-> -1],
     aud |-> NoRequest, complete |-> TRUE]

\* Mutant: the overlay filter without shortest=1 runs for the whole overlay.
OverlayFramesNoShortest(baseLen, ovLen) == [i \in 1..ovLen |-> i - 1]

\* [1:v]chromakey[ckout]; [0:v][ckout]overlay=shortest=1 : the output ends
\* with the shorter input; the overlay input is read once, from its start.
OverlayFrames(baseLen, ovLen) == [i \in 1..Min(baseLen, ovLen) |-> i - 1]

ChromaKeyVideo(r, base, ovLen) ==
    [exists |-> TRUE, by |-> r, img |-> base.img,
     ovs |-> OverlayFrames(Len(base.ovs), ovLen),
     aud |-> NoRequest, complete |-> TRUE]

\* ffmpeg.input(video).input(audio).output(...): video frames kept, audio added.
CombinedVideo(r, video) ==
    [exists |-> TRUE, by |-> r, img |-> video.img, ovs |-> video.ovs,
     aud |-> r, complete |-> TRUE]

Readable(f) == f.exists /\ f.complete

Req(s) == <<s, reqNo[s]>>

TmpAudio(r) == [owner |-> r, kind |-> "audio"]
TmpImage(r) == [owner |-> r, kind |-> "image"]

Resting == {"idle", "finished", "crashed"}

TypeOK ==
    /\ pc \in [AllSessions -> {"idle", "step1", "step2", "step3", "cleanup",
                               "returned", "offered", "finished", "crashed"}]
    /\ reqNo \in [AllSessions -> 0..MaxRequests + 1]
    /\ result \in [AllSessions -> {Unset, None, final_output_path}]
    /\ overlayLen \in 0..MaxOverlayFrames + 1
    /\ DOMAIN fs = FixedPaths

Init ==
    /\ pc = [s \in AllSessions |-> "idle"]
    /\ reqNo = [s \in AllSessions |-> 0]
    /\ audio = [s \in AllSessions |-> NoAudio]
    /\ duration = [s \in AllSessions |-> 0]
    /\ errors = [s \in AllSessions |-> <<>>]
    /\ calls = [s \in AllSessions |-> <<>>]
    /\ result = [s \in AllSessions |-> Unset]
    /\ data = [s \in AllSessions |-> Absent]
    /\ fs = [p \in FixedPaths |-> Absent]
    /\ tmp = {}
    /\ overlayLen \in 0..MaxOverlayFrames

\* What a failed ffmpeg run leaves at its output path: nothing new when it
\* could not read its inputs, otherwise possibly a partly written file.
FailedOutput(s, p, inputsOk) ==
    \/ fs' = fs
    \/ inputsOk /\ fs' = [fs EXCEPT ![p] = Partial(Req(s))]

\* except Exception in process_media
Caught(s, step, outcome) ==
    /\ calls' = [calls EXCEPT ![s] = Append(@, <<step, outcome>>)]
    /\ errors' = [errors EXCEPT ![s] = Append(@, "An error occurred")]
    /\ result' = [result EXCEPT ![s] = None]
    /\ pc' = [pc EXCEPT ![s] = "returned"]

\* The script run starts: both uploads are saved, the duration is read.
StartRequest(s, inputs, maxReq) ==
    /\ pc[s] \in Resting
    /\ reqNo[s] < maxReq
    /\ \E a \in inputs :
        LET r == <<s, reqNo[s] + 1>>
            g == get_audio_duration(a)
        IN  /\ reqNo' = [reqNo EXCEPT ![s] = @ + 1]
            /\ audio' = [audio EXCEPT ![s] = a]
            /\ tmp' = tmp \cup {TmpAudio(r), TmpImage(r)}
            /\ duration' = [duration EXCEPT ![s] = g.ret]
            /\ data' = [data EXCEPT ![s] = Absent]
            /\ calls' = [calls EXCEPT ![s] =
                           <<(<<"get_audio_duration",
                                IF g.errs = <<>> THEN "ok" ELSE "failed">>)>>]
            /\ IF InvalidDuration(g.ret)
               THEN /\ errors' = [errors EXCEPT ![s] =
                                    g.errs \o <<"Audio duration is invalid.">>]
                    /\ result' = [result EXCEPT ![s] = None]
                    /\ pc' = [pc EXCEPT ![s] = "returned"]
               ELSE /\ errors' = [errors EXCEPT ![s] = g.errs]
                    /\ result' = [result EXCEPT ![s] = Unset]
                    /\ pc' = [pc EXCEPT ![s] = "step1"]
    /\ UNCHANGED <<fs, overlayLen>>

\* Step 1: turn the image into a video.
ImageToVideo(s) ==
    /\ pc[s] = "step1"
    /\ \/ /\ fs' = [fs EXCEPT ![image_video_path] = ImageVideo(Req(s), duration[s])]
          /\ calls' = [calls EXCEPT ![s] = Append(@, <<"image_to_video", "ok">>)]
          /\ pc' = [pc EXCEPT ![s] = "step2"]
          /\ UNCHANGED <<errors, result>>
       \/ /\ FailedOutput(s, image_video_path, TRUE)
          /\ Caught(s, "image_to_video", "failed")
    /\ UNCHANGED <<reqNo, audio, duration, data, tmp, overlayLen>>

\* Step 2: apply_chroma_key(image_video_path, DEFAULT_OVERLAY_VIDEO, overlay_path);
\* its return value is not looked at.
apply_chroma_key(s) ==
    /\ pc[s] = "step2"
    /\ LET base == fs[image_video_path]
           inputsOk == Readable(base) /\ overlayLen > 0
       IN  \/ /\ inputsOk
              /\ fs' = [fs EXCEPT ![overlay_path] = ChromaKeyVideo(Req(s), base, overlayLen)]
              /\ calls' = [calls EXCEPT ![s] = Append(@, <<"apply_chroma_key", "ok">>)]
              /\ pc' = [pc EXCEPT ![s] = "step3"]
              /\ UNCHANGED <<errors, result>>
           \/ /\ FailedOutput(s, overlay_path, inputsOk)
              /\ calls' = [calls EXCEPT ![s] = Append(@, <<"apply_chroma_key", "failed">>)]
              /\ errors' = [errors EXCEPT ![s] = Append(@, "FFmpeg chroma key error")]
              /\ pc' = [pc EXCEPT ![s] = "step3"]
              /\ UNCHANGED result
           \/ /\ fs' = fs
              /\ Caught(s, "apply_chroma_key", "raised")
    /\ UNCHANGED <<reqNo, audio, duration, data, tmp, overlayLen>>

\* Step 3: combine_audio_video(audio_path, overlay_path, final_output_path);
\* its return value is not looked at.
combine_audio_video(s) ==
    /\ pc[s] = "step3"
    /\ LET video == fs[overlay_path]
           inputsOk == Readable(video) /\ TmpAudio(Req(s)) \in tmp
       IN  \/ /\ inputsOk
              /\ fs' = [fs EXCEPT ![final_output_path] = CombinedVideo(Req(s), video)]
              /\ calls' = [calls EXCEPT ![s] = Append(@, <<"combine_audio_video", "ok">>)]
              /\ pc' = [pc EXCEPT ![s] = "cleanup"]
              /\ UNCHANGED <<errors, result>>
           \/ /\ FailedOutput(s, final_output_path, inputsOk)
              /\ calls' = [calls EXCEPT ![s] = Append(@, <<"combine_audio_video", "failed">>)]
              /\ errors' = [errors EXCEPT ![s] = Append(@, "FFmpeg combine error")]
              /\ pc' = [pc EXCEPT ![s] = "cleanup"]
              /\ UNCHANGED result
           \/ /\ fs' = fs
              /\ Caught(s, "combine_audio_video", "raised")
    /\ UNCHANGED <<reqNo, audio, duration, data, tmp, overlayLen>>

\* Cleanup and return: four os.remove calls in order; the first one whose
\* file is missing raises and the rest are skipped.
Cleanup(s) ==
    /\ pc[s] = "cleanup"
    /\ tmp' = tmp \ {TmpAudio(Req(s)), TmpImage(Req(s))}
    /\ IF ~fs[image_video_path].exists
       THEN /\ fs' = fs
            /\ Caught(s, "cleanup", "raised")
       ELSE IF ~fs[overlay_path].exists
       THEN /\ fs' = [fs EXCEPT ![image_video_path] = Absent]
            /\ Caught(s, "cleanup", "raised")
       ELSE /\ fs' = [fs EXCEPT ![image_video_path] = Absent, ![overlay_path] = Absent]
            /\ calls' = [calls EXCEPT ![s] = Append(@, <<"cleanup", "ok">>)]
            /\ result' = [result EXCEPT ![s] = final_output_path]
            /\ pc' = [pc EXCEPT ![s] = "returned"]
            /\ UNCHANGED errors
    /\ UNCHANGED <<reqNo, audio, duration, data, overlayLen>>

\* UI block: if final_video_path: open, read, offer the download; else error.
ShowResult(s) ==
    /\ pc[s] = "returned"
    /\ IF result[s] # None
       THEN IF fs[result[s]].exists
            THEN /\ data' = [data EXCEPT ![s] = fs[result[s]]]
                 /\ calls' = [calls EXCEPT ![s] = Append(@, <<"open", "ok">>)]
                 /\ pc' = [pc EXCEPT ![s] = "offered"]
                 /\ UNCHANGED errors
            ELSE /\ calls' = [calls EXCEPT ![s] = Append(@, <<"open", "raised">>)]
                 /\ pc' = [pc EXCEPT ![s] = "crashed"]
                 /\ UNCHANGED <<data, errors>>
       ELSE /\ errors' = [errors EXCEPT ![s] =
                            Append(@, "Failed to generate the video. Please try again.")]
            /\ pc' = [pc EXCEPT ![s] = "finished"]
            /\ UNCHANGED <<data, calls>>
    /\ UNCHANGED <<reqNo, audio, duration, result, fs, tmp, overlayLen>>

\* UI block: os.remove(final_video_path) after the with block.
RemoveOutput(s) ==
    /\ pc[s] = "offered"
    /\ IF fs[result[s]].exists
       THEN /\ fs' = [fs EXCEPT ![result[s]] = Absent]
            /\ calls' = [calls EXCEPT ![s] = Append(@, <<"remove", "ok">>)]
            /\ pc' = [pc EXCEPT ![s] = "finished"]
       ELSE /\ fs' = fs
            /\ calls' = [calls EXCEPT ![s] = Append(@, <<"remove", "raised">>)]
            /\ pc' = [pc EXCEPT ![s] = "crashed"]
    /\ UNCHANGED <<reqNo, audio, duration, errors, result, data, tmp, overlayLen>>

ScriptRun(s, inputs, maxReq) ==
    \/ StartRequest(s, inputs, maxReq)
    \/ ImageToVideo(s)
    \/ apply_chroma_key(s)
    \/ combine_audio_video(s)
    \/ Cleanup(s)
    \/ ShowResult(s)
    \/ RemoveOutput(s)

\* One browser session: script runs follow one another.
Next == ScriptRun(1, AudioInputs, MaxRequests)

Spec == Init /\ [][Next]_vars

\* Two browser sessions, each script run on its own thread; every session
\* uploads a well-formed .mp3 once.
ConcInputs == {a \in AudioInputs : a.ext = ".mp3" /\ a.readable /\ a.length > 0}

NextConc == \E s \in AllSessions : ScriptRun(s, ConcInputs, 1)

SpecConc == Init /\ [][NextConc]_vars

\* ------------------------------------------------------------ properties

FfmpegSteps == {"image_to_video", "apply_chroma_key", "combine_audio_video"}

Called(s, step) == \E i \in 1..Len(calls[s]) : calls[s][i][1] = step

StepOk(s, step) == \E i \in 1..Len(calls[s]) : calls[s][i] = <<step, "ok">>

AllStepsOk(s) == \A step \in FfmpegSteps : StepOk(s, step)

\* The least number of frames that covers d ticks at FrameRate frames per second.
CeilFrames(d) ==
    CHOOSE m \in 0..(d * FrameRate) :
        /\ m * TicksPerSecond >= d * FrameRate
        /\ (m - 1) * TicksPerSecond < d * FrameRate

\* The extensions of Exts that name a supported format, in any letter case.
SupportedExts == {".mp3", ".WAV", ".aac", ".ogg"}

\* C1: process_media returns a path only when all three ffmpeg steps
\* succeeded and the file at that path was completely written by this call.
C1_AllOrNothing ==
    \A s \in AllSessions :
        (pc[s] = "returned" /\ result[s] # None) =>
            /\ AllStepsOk(s)
            /\ fs[final_output_path].exists
            /\ fs[final_output_path].complete
            /\ fs[final_output_path].by = Req(s)

\* C2: a request whose audio length is zero, negative or cannot be read
\* returns None, runs no ffmpeg step and writes none of the three videos.
C2_InvalidDurationStopsEarly ==
    \A s \in AllSessions :
        (reqNo[s] > 0 /\ (~audio[s].readable \/ audio[s].length <= 0)) =>
            /\ pc[s] \in {"returned", "finished"}
            /\ result[s] = None
            /\ \A step \in FfmpegSteps : ~Called(s, step)
            /\ \A p \in FixedPaths : fs[p].by # Req(s)

C2_Witness ==
    /\ reqNo[1] = 2
    /\ audio[1].readable /\ audio[1].ext = ".mp3" /\ audio[1].length = 0
    /\ pc[1] = "finished"
    /\ fs[image_video_path].exists

\* C3: the video a session is offered, when all its steps succeeded, was
\* written by its own request from its own image and audio.
C3_NoSharedState ==
    \A s \in AllSessions :
        (pc[s] = "offered" /\ AllStepsOk(s)) =>
            /\ data[s].by = Req(s)
            /\ data[s].img = Req(s)
            /\ data[s].aud = Req(s)

\* C4: once a request is over, no temporary upload copy and no video that
\* the request wrote is left on disk.
C4_NothingPersists ==
    \A s \in AllSessions :
        pc[s] \in {"finished", "crashed"} =>
            /\ \A f \in tmp : f.owner # Req(s)
            /\ \A p \in FixedPaths : ~(fs[p].exists /\ fs[p].by = Req(s))

\* C5: the video offered after three successful steps has exactly
\* ceil(duration * 24) frames, whatever the overlay length.
C5_ExactFrameCount ==
    \A s \in AllSessions :
        (pc[s] = "offered" /\ AllStepsOk(s)) =>
            Len(data[s].ovs) = CeilFrames(duration[s])

\* C6: when the overlay has fewer frames than the duration needs, output
\* frame i shows overlay frame i mod N.
C6_Looping ==
    \A s \in AllSessions :
        (pc[s] = "offered" /\ AllStepsOk(s) /\ CeilFrames(duration[s]) > overlayLen) =>
            /\ DOMAIN data[s].ovs = 1..CeilFrames(duration[s])
            /\ \A i \in DOMAIN data[s].ovs : data[s].ovs[i] = (i - 1) % overlayLen

\* C7: when the overlay has more frames than the duration needs, the output
\* has the M needed frames and shows overlay frames 0..M-1 in order.
C7_Truncation ==
    \A s \in AllSessions :
        (pc[s] = "offered" /\ AllStepsOk(s) /\ CeilFrames(duration[s]) < overlayLen) =>
            /\ Len(data[s].ovs) = CeilFrames(duration[s])
            /\ \A i \in 1..Len(data[s].ovs) : data[s].ovs[i] = i - 1

C7_Witness ==
    /\ pc[1] = "offered" /\ AllStepsOk(1)
    /\ overlayLen = 3 /\ duration[1] = 1
    /\ data[1].ovs = <<0, 1>>

\* C8: every failed step is reported, no step is run twice, and no step
\* runs after a step that failed.
C8_ErrorsStopThePipeline ==
    \A s \in AllSessions :
        /\ \A i, j \in 1..Len(calls[s]) :
              (i < j /\ calls[s][j][1] \in FfmpegSteps) =>
                  /\ calls[s][i][2] = "ok"
                  /\ calls[s][i][1] # calls[s][j][1]
        /\ (pc[s] = "returned" /\ \E i \in 1..Len(calls[s]) : calls[s][i][2] # "ok") =>
              errors[s] # <<>>

\* C9: get_audio_duration returns the reader's length for a supported
\* extension in any letter case whose file can be read and 0, with an error
\* reported, for everything else; in that case process_media returns None.
C9_AudioDuration ==
    \A s \in AllSessions :
        reqNo[s] > 0 =>
            IF audio[s].ext \in SupportedExts /\ audio[s].readable
            THEN /\ duration[s] = audio[s].length
                 /\ calls[s][1] = <<"get_audio_duration", "ok">>
            ELSE /\ duration[s] = 0
                 /\ calls[s] = <<(<<"get_audio_duration", "failed">>)>>
                 /\ errors[s][1] = (IF audio[s].ext \in SupportedExts
                                    THEN "Could not determine audio duration"
                                    ELSE "Unsupported audio format")
                 /\ result[s] = None

C9_Witness ==
    /\ pc[1] = "step1"
    /\ audio[1].ext = ".WAV" /\ audio[1].readable
    /\ duration[1] = 2

\* C10: a download is offered exactly when process_media returned a path;
\* the file is then opened successfully, read and removed once; after None
\* the failure message is shown and nothing is opened or removed.
C10_DownloadIffPath ==
    \A s \in AllSessions :
        /\ pc[s] = "offered" => result[s] # None
        /\ (pc[s] \in {"offered", "finished", "crashed"} /\ result[s] # None) =>
              /\ calls[s][Len(calls[s]) - (IF pc[s] = "offered" THEN 0 ELSE 1)] = <<"open", "ok">>
              /\ data[s].exists
        /\ (pc[s] = "finished" /\ result[s] # None) =>
              calls[s][Len(calls[s])] = <<"remove", "ok">>
        /\ (pc[s] = "finished" /\ result[s] = None) =>
              /\ errors[s][Len(errors[s])] = "Failed to generate the video. Please try again."
              /\ ~Called(s, "open") /\ ~Called(s, "remove")

====
